---- MODULE Spec2Model ----
(***************************************************************************)
(* pq-peak: terminal browser for a columnar file.                          *)
(*                                                                         *)
(* Two sessions are modelled over one set of fields:                       *)
(*   session = "table"       the read-only browser   (src/src/table.rs)    *)
(*   session = "sql_editor"  the query editor        (src/src/sql_editor.rs)*)
(* A state is the App structure at the point where run() blocks in         *)
(* event::read(), i.e. after the frame of the current loop iteration has   *)
(* been drawn.  Every key action is the whole handler followed by the      *)
(* draw of the next loop iteration.                                        *)
(***************************************************************************)
EXTENDS Integers, Sequences, FiniteSets, TLC

\* ------------------------------------------------------------------ bounds
\* Width of the machine word (usize) in bits, scaled down for the checker.
UsizeBits == 4
\* Largest number of rows in the source file.
MaxRows == 5
\* A query result is drawn from the first MaxResultRows rows of the table.
MaxResultRows == 2
\* A text area takes a typed token only while it holds fewer than MaxText.
MaxText == 1
\* Longest query text, in tokens, of the sessions that start from a typed query.
MaxQuery == 2
\* Largest number of dot-separated parts of the file name.
MaxPath == 3

\* --------------------------------------------------------- program constants
VISIBLE_COLS == 10
MAX_PREVIEW_ROWS == 1000
DEFAULT_SQL == <<"SELECT * FROM data", "LIMIT 100">>
DEFAULT_SAVE == <<"output.parquet">>

USIZE_MAX == 2^UsizeBits - 1

Min(a, b) == IF a < b THEN a ELSE b

\* usize arithmetic of a build without overflow checks: wrap-around.
WrapAdd(a, b) == (a + b) % (USIZE_MAX + 1)
WrapSub(a, b) == (a - b + USIZE_MAX + 1) % (USIZE_MAX + 1)

\* ------------------------------------------------------- execution status
Idle == [tag |-> "Idle", msg |-> ""]
Executing == [tag |-> "Executing", msg |-> ""]
Success == [tag |-> "Success", msg |-> ""]
Error(m) == [tag |-> "Error", msg |-> m]

\* -------------------------------------------------------- columnar source
\* A cell is <<row id, column>>; rows are numbered from 0.
SourceRow(i, ncols) == [c \in 1..ncols |-> <<i, c>>]
SourceRows(nrows, ncols) == [j \in 1..nrows |-> SourceRow(j - 1, ncols)]
SourceHeader(ncols) == [c \in 1..ncols |-> c]

\* A RecordBatch is columnar: a schema and one array of cells a column.
RecordBatch(schema, rows) ==
    [schema |-> schema,
     num_rows |-> Len(rows),
     columns |-> [c \in 1..Len(schema) |-> [r \in 1..Len(rows) |-> rows[r][c]]]]

\* batch_to_rows: one Vec<String> a row, the cells of the row in column order.
batch_to_rows(batch) ==
    [r \in 1..batch.num_rows |-> [c \in 1..Len(batch.columns) |-> batch.columns[c][r]]]

\* An iterator of record batches: every next() takes up to n rows.
RECURSIVE Chunks(_, _)
Chunks(rows, n) ==
    IF rows = <<>> THEN <<>>
    ELSE <<SubSeq(rows, 1, Min(n, Len(rows)))>>
           \o Chunks(SubSeq(rows, Min(n, Len(rows)) + 1, Len(rows)), n)

\* Mutant: with_batch_size is left out and the reader hands over the rows in
\* batches of its own default size, larger than any file here.
Reader_default_batch_size(nrows, ncols, bsize) ==
    LET chunks == Chunks(SourceRows(nrows, ncols), USIZE_MAX) IN
    [i \in 1..Len(chunks) |-> RecordBatch(SourceHeader(ncols), chunks[i])]

\* builder.with_batch_size(batch_size).build(): the reader over the file.
Reader(nrows, ncols, bsize) ==
    LET chunks == Chunks(SourceRows(nrows, ncols), bsize) IN
    [i \in 1..Len(chunks) |-> RecordBatch(SourceHeader(ncols), chunks[i])]

\* (total_rows + batch_size - 1) / batch_size, in usize.
total_batches_of(total, bsize) == WrapSub(WrapAdd(total, bsize), 1) \div bsize

\* reader.skip(batch_idx).next(): the batch or "None".
SkipNext(reader, batch_idx) ==
    IF batch_idx + 1 <= Len(reader) THEN <<reader[batch_idx + 1]>> ELSE <<>>

\* ---------------------------------------------------------- table widget
\* TableState::select_previous / select_next (saturating).
select_previous(sel) == IF sel = 0 THEN 0 ELSE sel - 1
select_next(sel) == IF sel = USIZE_MAX THEN USIZE_MAX ELSE sel + 1

\* render_stateful_widget: a selection past the last row is pulled back to
\* it.  draw_table returns before rendering when there are no rows.
Render(sel, rows) ==
    IF rows = <<>> THEN sel
    ELSE IF sel >= Len(rows) THEN Len(rows) - 1 ELSE sel

\* --------------------------------------------------------------- viewport
\* Mutant: the offset moves right whatever the number of columns.
scroll_right_of_unbounded(off, rows) == IF rows = <<>> THEN off ELSE off + 1

scroll_left_of(off) == IF off > 0 THEN off - 1 ELSE off

scroll_right_of(off, rows) ==
    IF rows = <<>> THEN off
    ELSE IF off + VISIBLE_COLS < Len(rows[1]) THEN off + 1 ELSE off


\* ------------------------------------------------------------------ state
VARIABLES
    session,   \* which App runs: "table" or "sql_editor"
    file,      \* the file at file_path: [rows |-> row count, cols |-> column count]
    app,       \* the App structure
    pc,        \* position of run(): "read" (blocked in event::read),
               \* "executing" (Executing frame drawn, engine running), "quit"
    last,      \* history: the last input handled and what the environment answered
    first_rows,\* history: the rows displayed at initial load
    far,       \* history: the highest batch index displayed since the raw view began
    keyboard,  \* the focus-routed keys the user of this session presses
    path       \* file_path as given on the command line: the file name, split
               \* at its dots

vars == <<session, file, app, pc, last, first_rows, far, keyboard, path>>

BatchSizes == {2, USIZE_MAX}
ColumnCounts == {VISIBLE_COLS + 1}
\* one row; a whole number of batches of 2; a short last batch
RowCounts == {1, MaxRows - 1, MaxRows}
Files == [rows : RowCounts, cols : ColumnCounts]

NoResult == [kind |-> "none", batches |-> <<>>]
Last(key, io, result) == [key |-> key, io |-> io, result |-> result]

\* ------------------------------------------------- table.rs: the browser
\* App::new of table.rs (the file holds at least one row, else "No data in file").
table_new(f, bsize) ==
    [table_state |-> 0,
     current_batch_idx |-> 0,
     current_rows |-> batch_to_rows(Reader(f.rows, f.cols, bsize)[1]),
     header |-> SourceHeader(f.cols),
     col_offset |-> 0,
     batch_size |-> bsize,
     total_batches |-> total_batches_of(f.rows, bsize),
     total_rows |-> f.rows]

\* App::load_batch of table.rs; io = FALSE: the file cannot be opened or decoded.
table_load_batch(a, f, batch_idx, io) ==
    IF ~io THEN a
    ELSE LET got == SkipNext(Reader(f.rows, f.cols, a.batch_size), batch_idx) IN
         IF got # <<>>
         THEN [a EXCEPT !.current_rows = batch_to_rows(got[1]),
                        !.current_batch_idx = batch_idx,
                        !.table_state = 0]
         ELSE a

table_load_next_batch(a, f, io) ==
    IF a.current_batch_idx + 1 < a.total_batches
    THEN table_load_batch(a, f, a.current_batch_idx + 1, io)
    ELSE a

table_load_previous_batch(a, f, io) ==
    IF a.current_batch_idx > 0
    THEN table_load_batch(a, f, a.current_batch_idx - 1, io)
    ELSE a

\* One iteration of table.rs run(): the key is handled, the next frame drawn.
table_key(a, f, key, io) ==
    CASE key = "Up" -> [a EXCEPT !.table_state = select_previous(@)]
      [] key = "Down" -> [a EXCEPT !.table_state = select_next(@)]
      [] key = "PageDown" -> table_load_next_batch(a, f, io)
      [] key = "PageUp" -> table_load_previous_batch(a, f, io)
      [] key = "Left" -> [a EXCEPT !.col_offset = scroll_left_of(@)]
      [] key = "Right" -> [a EXCEPT !.col_offset = scroll_right_of(@, a.current_rows)]
      [] OTHER -> a

Drawn(a) == [a EXCEPT !.table_state = Render(@, a.current_rows)]

Far(a) == IF a.current_batch_idx > far THEN a.current_batch_idx ELSE far

TableKeys == {"Up", "Down", "PageDown", "PageUp", "Left", "Right", "Enter"}
\* keys whose handler may open the source file or create the output file
FileKeys == {"PageDown", "PageUp", "Ctrl+R", "Enter"}
IoOf(key) == IF key \in FileKeys THEN BOOLEAN ELSE {TRUE}

TableNavigate ==
    /\ session = "table" /\ pc = "read"
    /\ \E key \in keyboard : \E io \in IoOf(key) :
         /\ app' = Drawn(table_key(app, file, key, io))
         /\ last' = Last(key, io, NoResult)
    /\ far' = Far(app')
    /\ UNCHANGED <<path, session, file, pc, first_rows, keyboard>>

TableQuit ==
    /\ session = "table" /\ pc = "read"
    /\ \E key \in {"Esc", "Ctrl+Q"} : last' = Last(key, TRUE, NoResult)
    /\ pc' = "quit"
    /\ UNCHANGED <<path, session, file, app, first_rows, far, keyboard>>


\* ----------------------------------------------- sql_editor.rs: the editor
\* Text is a sequence of tokens; " " is white space.
RECURSIVE trim_start(_)
trim_start(t) ==
    IF t # <<>> /\ t[1] = " " THEN trim_start(SubSeq(t, 2, Len(t))) ELSE t

RECURSIVE trim_end(_)
trim_end(t) ==
    IF t # <<>> /\ t[Len(t)] = " " THEN trim_end(SubSeq(t, 1, Len(t) - 1)) ELSE t

trim(t) == trim_end(trim_start(t))

\* lines().join(" "): the line breaks of the text become blanks.
joined(t) == [i \in 1..Len(t) |-> IF t[i] = "\n" THEN " " ELSE t[i]]

\* TextArea::input: a character is inserted, Enter breaks the line, Backspace
\* deletes one token, any other key moves the cursor only.
textarea_input(t, key, chars) ==
    IF key = "Backspace" THEN (IF t = <<>> THEN t ELSE SubSeq(t, 1, Len(t) - 1))
    ELSE IF key \in chars THEN Append(t, key)
    ELSE IF key = "Enter" THEN Append(t, "\n")
    ELSE t

\* App::new of sql_editor.rs.
new(f, bsize) ==
    [batch_size |-> bsize,
     sql_textarea |-> DEFAULT_SQL,
     save_dialog |-> DEFAULT_SAVE,
     focused_pane |-> "SqlEditor",
     execution_state |-> Idle,
     show_save_dialog |-> FALSE,
     table_state |-> 0,
     current_batch_idx |-> 0,
     current_rows |-> batch_to_rows(Reader(f.rows, f.cols, bsize)[1]),
     header |-> SourceHeader(f.cols),
     col_offset |-> 0,
     total_batches |-> total_batches_of(f.rows, bsize),
     total_rows |-> f.rows,
     is_filtered |-> FALSE]

\* A fallible call returns the structure it leaves and whether it was Ok.
Ok(a) == [app |-> a, ok |-> TRUE]
Err(a) == [app |-> a, ok |-> FALSE]

RECURSIVE all_rows_of(_)
all_rows_of(batches) ==
    IF batches = <<>> THEN <<>>
    ELSE batch_to_rows(batches[1]) \o all_rows_of(SubSeq(batches, 2, Len(batches)))

\* Mutant: the new rows are appended to the rows on display.
update_with_results_appends(a, batches) ==
    IF batches = <<>> THEN Ok(a)
    ELSE Ok([a EXCEPT !.header = batches[1].schema,
                      !.current_rows = a.current_rows \o all_rows_of(batches),
                      !.current_batch_idx = 0,
                      !.total_rows = Len(a.current_rows \o all_rows_of(batches)),
                      !.total_batches = 1,
                      !.col_offset = 0,
                      !.table_state = 0,
                      !.is_filtered = TRUE])

\* Mutant: total_batches is left at the count of the raw view.
update_with_results_keeps_batches(a, batches) ==
    IF batches = <<>> THEN Ok(a)
    ELSE Ok([a EXCEPT !.header = batches[1].schema,
                      !.current_rows = all_rows_of(batches),
                      !.current_batch_idx = 0,
                      !.total_rows = Len(all_rows_of(batches)),
                      !.col_offset = 0,
                      !.table_state = 0,
                      !.is_filtered = TRUE])

update_with_results(a, batches) ==
    IF batches = <<>> THEN Ok(a)
    ELSE Ok([a EXCEPT !.header = batches[1].schema,
                      !.current_rows = all_rows_of(batches),
                      !.current_batch_idx = 0,
                      !.total_rows = Len(all_rows_of(batches)),
                      !.total_batches = 1,
                      !.col_offset = 0,
                      !.table_state = 0,
                      !.is_filtered = TRUE])

\* Mutant: the batch index is not put back to 0.
load_original_data_keeps_index(a, f, io) ==
    IF ~io THEN Err(a)
    ELSE Ok([a EXCEPT !.header = SourceHeader(f.cols),
                      !.current_rows = batch_to_rows(Reader(f.rows, f.cols, a.batch_size)[1]),
                      !.total_rows = f.rows,
                      !.total_batches = total_batches_of(f.rows, a.batch_size),
                      !.col_offset = 0,
                      !.table_state = 0,
                      !.is_filtered = FALSE,
                      !.execution_state = Idle,
                      !.sql_textarea = DEFAULT_SQL])

\* Mutant: the overlay flag is not cleared.
load_original_data_keeps_overlay(a, f, io) ==
    IF ~io THEN Err(a)
    ELSE Ok([a EXCEPT !.header = SourceHeader(f.cols),
                      !.current_rows = batch_to_rows(Reader(f.rows, f.cols, a.batch_size)[1]),
                      !.current_batch_idx = 0,
                      !.total_rows = f.rows,
                      !.total_batches = total_batches_of(f.rows, a.batch_size),
                      !.col_offset = 0,
                      !.table_state = 0,
                      !.execution_state = Idle,
                      !.sql_textarea = DEFAULT_SQL])

\* Mutant: the status is not put back to Idle.
load_original_data_keeps_status(a, f, io) ==
    IF ~io THEN Err(a)
    ELSE Ok([a EXCEPT !.header = SourceHeader(f.cols),
                      !.current_rows = batch_to_rows(Reader(f.rows, f.cols, a.batch_size)[1]),
                      !.current_batch_idx = 0,
                      !.total_rows = f.rows,
                      !.total_batches = total_batches_of(f.rows, a.batch_size),
                      !.col_offset = 0,
                      !.table_state = 0,
                      !.is_filtered = FALSE,
                      !.sql_textarea = DEFAULT_SQL])

\* io = FALSE: the file cannot be opened or decoded any more.
load_original_data(a, f, io) ==
    IF ~io THEN Err(a)
    ELSE Ok([a EXCEPT !.header = SourceHeader(f.cols),
                      !.current_rows = batch_to_rows(Reader(f.rows, f.cols, a.batch_size)[1]),
                      !.current_batch_idx = 0,
                      !.total_rows = f.rows,
                      !.total_batches = total_batches_of(f.rows, a.batch_size),
                      !.col_offset = 0,
                      !.table_state = 0,
                      !.is_filtered = FALSE,
                      !.execution_state = Idle,
                      !.sql_textarea = DEFAULT_SQL])

\* The tokens a query text is made of, besides white space.
QueryTokens == {"SELECT * FROM data", "select * from data", "LIMIT 100",
                "WHERE note <> 'limit'", "SHOW TABLES"}

\* str::to_uppercase, token by token.
to_uppercase(t) ==
    [i \in 1..Len(t) |->
        CASE t[i] \in {"SELECT * FROM data", "select * from data"} -> "SELECT * FROM DATA"
          [] t[i] = "WHERE note <> 'limit'" -> "WHERE NOTE <> 'LIMIT'"
          [] OTHER -> t[i]]

\* str::contains and str::starts_with: <<token, pattern>> such that the
\* pattern occurs in the token, or begins it.
Occurs == {<<"LIMIT 100", "LIMIT">>, <<"WHERE NOTE <> 'LIMIT'", "LIMIT">>,
           <<"SELECT * FROM DATA", "SELECT">>}
Begins == {<<"LIMIT 100", "LIMIT">>, <<"SELECT * FROM DATA", "SELECT">>}
contains(t, pattern) == \E i \in 1..Len(t) : <<t[i], pattern>> \in Occurs
starts_with(t, pattern) == t # <<>> /\ <<t[1], pattern>> \in Begins

\* sql_with_limit: the text handed to ctx.sql().
sql_with_limit(sql) ==
    IF ~contains(to_uppercase(sql), "LIMIT")
         /\ starts_with(trim_start(to_uppercase(sql)), "SELECT")
    THEN Append(sql, " LIMIT " \o ToString(MAX_PREVIEW_ROWS))
    ELSE sql

\* Mutant: a parse failure falls back to the original data, as an empty
\* answer does.
execute_sql_reloads_on_error(a, f, out, io) ==
    IF trim(joined(a.sql_textarea)) = <<>>
    THEN Ok([a EXCEPT !.execution_state = Error("SQL query is empty")])
    ELSE CASE out.kind = "register_error" -> Err(a)
           [] out.kind = "sql_error" ->
                LET r == load_original_data(a, f, io) IN
                Ok([r.app EXCEPT !.execution_state = Error("SQL: <e>")])
           [] out.kind = "execution_error" ->
                Ok([a EXCEPT !.execution_state = Error("Execution: <e>")])
           [] OTHER ->
                IF out.batches = <<>>
                THEN load_original_data(
                        [a EXCEPT !.execution_state = Error("Query returned no results")],
                        f, io)
                ELSE LET r == update_with_results(a, out.batches) IN
                     [app |-> [r.app EXCEPT !.execution_state = Success], ok |-> r.ok]

\* out is what the engine answers: a failure to register the table, to parse
\* or to execute, or the collected batches with their schema.
execute_sql(a, f, out, io) ==
    IF trim(joined(a.sql_textarea)) = <<>>
    THEN Ok([a EXCEPT !.execution_state = Error("SQL query is empty")])
    ELSE CASE out.kind = "register_error" -> Err(a)
           [] out.kind = "sql_error" ->
                Ok([a EXCEPT !.execution_state = Error("SQL: <e>")])
           [] out.kind = "execution_error" ->
                Ok([a EXCEPT !.execution_state = Error("Execution: <e>")])
           [] OTHER ->
                IF out.batches = <<>>
                THEN load_original_data(
                        [a EXCEPT !.execution_state = Error("Query returned no results")],
                        f, io)
                ELSE LET r == update_with_results(a, out.batches) IN
                     [app |-> [r.app EXCEPT !.execution_state = Success], ok |-> r.ok]

\* Mutant: the selection is not put back to the first row.
load_batch_keeps_selection(a, f, batch_idx, io) ==
    IF a.is_filtered THEN Ok(a)
    ELSE IF ~io THEN Err(a)
    ELSE LET got == SkipNext(Reader(f.rows, f.cols, a.batch_size), batch_idx) IN
         IF got # <<>>
         THEN Ok([a EXCEPT !.current_rows = batch_to_rows(got[1]),
                           !.current_batch_idx = batch_idx])
         ELSE Ok(a)

\* Mutant: one batch too many is skipped.
load_batch_skips_one_more(a, f, batch_idx, io) ==
    IF a.is_filtered THEN Ok(a)
    ELSE IF ~io THEN Err(a)
    ELSE LET got == SkipNext(Reader(f.rows, f.cols, a.batch_size), batch_idx + 1) IN
         IF got # <<>>
         THEN Ok([a EXCEPT !.current_rows = batch_to_rows(got[1]),
                           !.current_batch_idx = batch_idx,
                           !.table_state = 0])
         ELSE Ok(a)

load_batch(a, f, batch_idx, io) ==
    IF a.is_filtered THEN Ok(a)
    ELSE IF ~io THEN Err(a)
    ELSE LET got == SkipNext(Reader(f.rows, f.cols, a.batch_size), batch_idx) IN
         IF got # <<>>
         THEN Ok([a EXCEPT !.current_rows = batch_to_rows(got[1]),
                           !.current_batch_idx = batch_idx,
                           !.table_state = 0])
         ELSE Ok(a)

\* Mutant: at the last batch the index is clamped and the batch loaded again.
load_next_batch_clamps(a, f, io) ==
    LET n == IF a.current_batch_idx + 1 < a.total_batches
             THEN a.current_batch_idx + 1 ELSE a.current_batch_idx
        r == load_batch(a, f, n, io) IN
    IF r.ok THEN r.app
    ELSE [r.app EXCEPT !.execution_state = Error("Error loading batch: <e>")]

load_next_batch(a, f, io) ==
    IF a.current_batch_idx + 1 < a.total_batches
    THEN LET r == load_batch(a, f, a.current_batch_idx + 1, io) IN
         IF r.ok THEN r.app
         ELSE [r.app EXCEPT !.execution_state = Error("Error loading batch: <e>")]
    ELSE a

load_previous_batch(a, f, io) ==
    IF a.current_batch_idx > 0
    THEN LET r == load_batch(a, f, a.current_batch_idx - 1, io) IN
         IF r.ok THEN r.app
         ELSE [r.app EXCEPT !.execution_state = Error("Error loading batch: <e>")]
    ELSE a

\* Mutant: the focus is toggled whether or not the save dialog is shown.
toggle_focus_unguarded(a) ==
    [a EXCEPT !.focused_pane =
        CASE @ = "SqlEditor" -> "TablePreview"
          [] @ = "TablePreview" -> "SqlEditor"
          [] @ = "SaveDialog" -> "SqlEditor"]

toggle_focus(a) ==
    IF ~a.show_save_dialog
    THEN [a EXCEPT !.focused_pane =
            CASE @ = "SqlEditor" -> "TablePreview"
              [] @ = "TablePreview" -> "SqlEditor"
              [] @ = "SaveDialog" -> "SqlEditor"]
    ELSE a

\* lines().join(""): the text of the dialog without its line breaks.
filename_of(t) == SelectSeq(t, LAMBDA c : c # "\n")

\* save_results: Ok exactly when an overlay is shown and File::create and the
\* writer succeed; a file with an empty name cannot be created.
\* Mutant: the raw view is exported as well.
save_results_without_overlay_check(a, output_path, io) == output_path # <<>> /\ io

save_results(a, output_path, io) == a.is_filtered /\ output_path # <<>> /\ io

\* The Err of save_results: the overlay is tested before the file is created.
save_error(a, output_path, io) ==
    IF ~a.is_filtered THEN "No SQL results to save. Execute a query first."
    ELSE IF save_results(a, output_path, io) THEN ""
    ELSE "<io>"

\* The file save_results leaves at output_path: one record batch of the
\* header and the rows on display, as string columns; nothing when it failed.
written_file(a, output_path, io) ==
    IF save_results(a, output_path, io)
    THEN <<RecordBatch(a.header, a.current_rows)>>
    ELSE <<>>

\* What a handler asked of the Persistence Exporter.
Export(output_path, ok, written, error) ==
    [kind |-> "export", batches |-> <<>>, path |-> output_path, ok |-> ok,
     file |-> written, error |-> error]

\* Characters the user types (tokens).
Chars == {" "}

\* handle_key_event: the structure it leaves, the Action it returns and the
\* call of the exporter it made, if any.
Handled(a, action, call) == [app |-> a, action |-> action, call |-> call]

\* Mutant: the dialog opens whether or not an overlay is shown.
save_command_without_overlay(a) ==
    [a EXCEPT !.show_save_dialog = TRUE, !.focused_pane = "SaveDialog"]

\* Ctrl+S
save_command(a) ==
    IF a.is_filtered
    THEN [a EXCEPT !.show_save_dialog = TRUE, !.focused_pane = "SaveDialog"]
    ELSE [a EXCEPT !.execution_state = Error("Execute a query first before saving")]

\* Mutant: a failed export leaves the dialog open.
confirm_save_stays_open_on_error(a, io) ==
    IF save_results(a, filename_of(a.save_dialog), io)
    THEN [a EXCEPT !.execution_state = Success,
                   !.show_save_dialog = FALSE,
                   !.focused_pane = "SqlEditor"]
    ELSE [a EXCEPT !.execution_state = Error("Save error: <e>")]

\* Enter in the save dialog.
confirm_save(a, io) ==
    IF save_results(a, filename_of(a.save_dialog), io)
    THEN [a EXCEPT !.execution_state = Success,
                   !.show_save_dialog = FALSE,
                   !.focused_pane = "SqlEditor"]
    ELSE [a EXCEPT !.execution_state = Error("Save error: <e>"),
                   !.show_save_dialog = FALSE,
                   !.focused_pane = "SqlEditor"]

\* Mutant: every key that is not a global one is typed into the query text.
pane_key_to_editor(a, f, key, io) ==
    Handled([a EXCEPT !.sql_textarea = textarea_input(@, key, Chars)], "None", NoResult)

\* match self.focused_pane: the key goes to the focused pane.
pane_key(a, f, key, io) ==
    CASE a.focused_pane = "SqlEditor" ->
           Handled([a EXCEPT !.sql_textarea = textarea_input(@, key, Chars)],
                   "None", NoResult)
      [] a.focused_pane = "TablePreview" ->
           Handled(CASE key = "Up" -> [a EXCEPT !.table_state = select_previous(@)]
                     [] key = "Down" -> [a EXCEPT !.table_state = select_next(@)]
                     [] key = "PageDown" -> load_next_batch(a, f, io)
                     [] key = "PageUp" -> load_previous_batch(a, f, io)
                     [] key = "Left" -> [a EXCEPT !.col_offset = scroll_left_of(@)]
                     [] key = "Right" ->
                          [a EXCEPT !.col_offset = scroll_right_of(@, a.current_rows)]
                     [] OTHER -> a,
                   "None", NoResult)
      [] a.focused_pane = "SaveDialog" ->
           CASE key = "Enter" ->
                  Handled(confirm_save(a, io), "None",
                          Export(filename_of(a.save_dialog),
                                 save_results(a, filename_of(a.save_dialog), io),
                                 written_file(a, filename_of(a.save_dialog), io),
                                 save_error(a, filename_of(a.save_dialog), io)))
             [] key = "Esc" ->
                  Handled([a EXCEPT !.show_save_dialog = FALSE,
                                    !.focused_pane = "SqlEditor"],
                          "None", NoResult)
             [] OTHER ->
                  Handled([a EXCEPT !.save_dialog = textarea_input(@, key, Chars)],
                          "None", NoResult)

handle_key_event(a, f, key, io) ==
    CASE key \in {"Esc", "Ctrl+Q"} -> Handled(a, "Quit", NoResult)
      [] key = "F2" -> Handled(toggle_focus(a), "None", NoResult)
      [] key = "Ctrl+E" -> Handled(a, "ExecuteSql", NoResult)
      [] key = "Ctrl+R" ->
           LET r == load_original_data(a, f, io) IN
           Handled(IF r.ok THEN r.app
                   ELSE [r.app EXCEPT !.execution_state = Error("Error resetting: <e>")],
                   "None", NoResult)
      [] key = "Ctrl+S" -> Handled(save_command(a), "None", NoResult)
      [] OTHER -> pane_key(a, f, key, io)

\* ------------------------------------------------------------ query engine
Project(row, k) == SubSeq(row, 1, k)

\* The rows lo..hi of the table "data", their first k columns.
Selected(f, lo, hi, k) == [j \in 1..(hi - lo + 1) |-> Project(SourceRow(lo + j - 2, f.cols), k)]

\* The engine hands the rows over in batches of at most batch_size rows
\* (with_batch_size), here of one row or of batch_size rows; or it hands over
\* a single batch without rows.
ResultBatches(f, k, bsize) ==
    {LET chunks == Chunks(Selected(f, r[1], r[2], k), r[3]) IN
     [i \in 1..Len(chunks) |-> RecordBatch(SourceHeader(k), chunks[i])] :
        r \in {q \in (1..f.rows) \X (0..Min(f.rows, MaxResultRows)) \X {1, bsize} :
                  q[1] <= q[2] + 1}}
    \cup {<<RecordBatch(SourceHeader(k), <<>>)>>}

EngineOutcomes(f, bsize) ==
    {[kind |-> e, batches |-> <<>>] :
        e \in {"register_error", "sql_error", "execution_error"}}
    \cup UNION {{[kind |-> "batches", batches |-> b] : b \in ResultBatches(f, k, bsize)} :
                  k \in {1, f.cols}}

\* ----------------------------------------------------------------- actions
GlobalKeys == {"F2", "Ctrl+R", "Ctrl+S"}
NavigationKeys == {"Up", "Down", "PageDown", "PageUp", "Left", "Right", "Enter"}
TextKeys == {"Backspace", "Enter"} \cup Chars
Keyboards == {NavigationKeys, TextKeys}
\* Typing reads no data: the sessions in which the user types are opened over
\* the one-row file and over the largest file, <<rows, batch size>>.
TypingSessions == {<<1, USIZE_MAX>>, <<MaxRows, 2>>}

\* The text area the key would reach stays within MaxText tokens.
WithinText(a, key) ==
    /\ (key \in Chars \cup {"Enter"} /\ a.focused_pane = "SqlEditor")
          => Len(a.sql_textarea) < MaxText
    /\ (key \in Chars /\ a.focused_pane = "SaveDialog")
          => Len(a.save_dialog) < MaxText

\* run(): a key that returns no Action; the next frame is drawn.
KeyStep(keys) ==
    /\ session = "sql_editor" /\ pc = "read"
    /\ \E key \in keys : \E io \in IoOf(key) :
         /\ WithinText(app, key)
         /\ handle_key_event(app, file, key, io).action = "None"
         /\ app' = Drawn(handle_key_event(app, file, key, io).app)
         /\ last' = Last(key, io, handle_key_event(app, file, key, io).call)
    /\ far' = Far(app')
    /\ UNCHANGED <<path, session, file, pc, first_rows, keyboard>>

\* F2
ToggleFocus == KeyStep({"F2"})

\* Ctrl+R
Reset == KeyStep({"Ctrl+R"})

\* Ctrl+S
SaveCommand == KeyStep({"Ctrl+S"})

\* any key that is routed to the focused pane
RoutedKey == KeyStep(keyboard)

\* run(): Action::Quit ends the loop.
Quit ==
    /\ session = "sql_editor" /\ pc = "read"
    /\ \E key \in {"Esc", "Ctrl+Q"} :
         /\ handle_key_event(app, file, key, TRUE).action = "Quit"
         /\ last' = Last(key, TRUE, NoResult)
    /\ pc' = "quit"
    /\ UNCHANGED <<path, session, file, app, first_rows, far, keyboard>>

\* Mutant: the loop reads the next key before the engine has answered.
ExecuteCommand_keeps_reading ==
    /\ session = "sql_editor" /\ pc = "read"
    /\ handle_key_event(app, file, "Ctrl+E", TRUE).action = "ExecuteSql"
    /\ app' = Drawn([app EXCEPT !.execution_state = Executing])
    /\ last' = Last("Ctrl+E", TRUE, NoResult)
    /\ pc' = "read"
    /\ UNCHANGED <<path, session, file, first_rows, far, keyboard>>

\* run(): Action::ExecuteSql sets Executing and draws that frame.
ExecuteCommand ==
    /\ session = "sql_editor" /\ pc = "read"
    /\ handle_key_event(app, file, "Ctrl+E", TRUE).action = "ExecuteSql"
    /\ app' = Drawn([app EXCEPT !.execution_state = Executing])
    /\ last' = Last("Ctrl+E", TRUE, NoResult)
    /\ pc' = "executing"
    /\ UNCHANGED <<path, session, file, first_rows, far, keyboard>>

\* The engine is not reached when the query text is empty.
Answers(a, f) ==
    IF trim(joined(a.sql_textarea)) = <<>> THEN {NoResult}
    ELSE EngineOutcomes(f, a.batch_size)

\* What the engine answered, and the text it was invoked with.
Invoked(out, query) ==
    IF out.kind = "none" THEN out
    ELSE [kind |-> out.kind, batches |-> out.batches, query |-> query]

\* run(): block_on(execute_sql()); an Err becomes the status "Error: ...".
ExecuteSql ==
    /\ session = "sql_editor" /\ pc = "executing"
    /\ \E out \in Answers(app, file) : \E io \in BOOLEAN :
         LET r == execute_sql(app, file, out, io) IN
         /\ app' = Drawn(IF r.ok THEN r.app
                         ELSE [r.app EXCEPT !.execution_state = Error("Error: <e>")])
         /\ last' = Last("engine", io,
                         Invoked(out, sql_with_limit(trim(joined(app.sql_textarea)))))
    /\ pc' = "read"
    /\ far' = Far(app')
    /\ UNCHANGED <<path, session, file, first_rows, keyboard>>

\* ------------------------------------------------------------------ startup
\* Path::extension: None (<<>>) when the name has no dot, is "..", or has its
\* only dot in front; else the part after the last dot.
extension(p) ==
    IF Len(p) < 2 \/ p = <<"", "", "">> \/ (Len(p) = 2 /\ p[1] = "")
    THEN <<>>
    ELSE <<p[Len(p)]>>

validate_extension(p) ==
    IF extension(p) # <<>>
    THEN extension(p)[1] = "parquet" \/ extension(p)[1] = ".pqt"
    ELSE FALSE

\* Display of PeakError::UnsupportedFileType.
UnsupportedFileType == "UNSUPPORTED_FILE_TYPE (.parquet or .pqt only)"

\* What the process printed on stderr and the code it exited with.
Exit(stderr, code) ==
    [kind |-> "exit", batches |-> <<>>, stderr |-> stderr, code |-> code]

\* No App has been constructed.
NoApp == [constructed |-> FALSE]

\* edit(): the extension is validated, then the App is constructed and run;
\* main unwraps the Err of App::new (the file cannot be opened or decoded).
Edit ==
    /\ session = "sql_editor" /\ pc = "start"
    /\ IF ~validate_extension(path)
       THEN /\ pc' = "exit"
            /\ last' = Last("edit", TRUE, Exit("ERROR: " \o UnsupportedFileType, 0))
            /\ UNCHANGED <<app, first_rows>>
       ELSE \E io \in BOOLEAN :
              /\ last' = Last("edit", io, NoResult)
              /\ IF io
                 THEN /\ \E bsize \in BatchSizes : app' = new(file, bsize)
                      /\ first_rows' = app'.current_rows
                      /\ pc' = "read"
                 ELSE /\ pc' = "panicked"
                      /\ UNCHANGED <<app, first_rows>>
    /\ UNCHANGED <<path, session, file, far, keyboard>>

\* ------------------------------------------------------------ specification
\* A session exists once App::new has returned: the file holds a row, and the
\* sum total_rows + batch_size either fits the word or wrapped (a build with
\* overflow checks panics there and no session starts).
Init ==
    /\ session \in {"table", "sql_editor"}
    /\ file \in Files
    /\ \E bsize \in BatchSizes :
         app = IF session = "table" THEN table_new(file, bsize) ELSE new(file, bsize)
    /\ pc = "read"
    /\ last = Last("none", TRUE, NoResult)
    /\ first_rows = app.current_rows
    /\ far = 0
    /\ keyboard \in IF session = "table" THEN {TableKeys} ELSE Keyboards
    /\ keyboard = TextKeys => <<file.rows, app.batch_size>> \in TypingSessions
    /\ path = <<"data", "parquet">>

Next ==
    \/ TableNavigate
    \/ TableQuit
    \/ ToggleFocus
    \/ Reset
    \/ SaveCommand
    \/ RoutedKey
    \/ Quit
    \/ ExecuteCommand
    \/ ExecuteSql

Spec == Init /\ [][Next]_vars

\* Sessions that start from a query the user has typed: every text of up to
\* MaxQuery tokens, executed again and again.
QueryTexts ==
    UNION {[1..n -> QueryTokens \cup {" "}] : n \in 0..MaxQuery}

QueryInit ==
    /\ session = "sql_editor"
    /\ file \in Files
    /\ \E bsize \in BatchSizes : \E t \in QueryTexts :
         app = [new(file, bsize) EXCEPT !.sql_textarea = t]
    /\ pc = "read"
    /\ last = Last("none", TRUE, NoResult)
    /\ first_rows = app.current_rows
    /\ far = 0
    /\ keyboard = TextKeys
    /\ path = <<"data", "parquet">>

QueryNext ==
    \/ ExecuteCommand
    \/ ExecuteSql

SpecQuery == QueryInit /\ [][QueryNext]_vars

\* run() with its fallible calls failing: terminal.draw and event::read of
\* either session, the second draw of an execution, and Runtime::new.  The
\* Err leaves run() through the ? operator.
TerminalFailure ==
    /\ pc = "read"
    /\ \/ UNCHANGED app
       \/ /\ session = "sql_editor"
          /\ app' = [app EXCEPT !.execution_state = Executing]
    /\ last' = Last("terminal", FALSE, NoResult)
    /\ pc' = "failed"
    /\ UNCHANGED <<path, session, file, first_rows, far, keyboard>>

RuntimeFailure ==
    /\ session = "sql_editor" /\ pc = "executing"
    /\ last' = Last("runtime", FALSE, NoResult)
    /\ pc' = "failed"
    /\ UNCHANGED <<path, session, file, app, first_rows, far, keyboard>>

FaultNext ==
    \/ Next
    \/ TerminalFailure
    \/ RuntimeFailure

SpecFaults == Init /\ [][FaultNext]_vars

\* The process from its start: every file name of up to MaxPath parts.
PathParts == {"data", "", "parquet", "pqt", "csv"}
Paths == UNION {[1..n -> PathParts] : n \in 1..MaxPath}

StartInit ==
    /\ session = "sql_editor"
    /\ file \in Files
    /\ path \in Paths
    /\ app = NoApp
    /\ pc = "start"
    /\ last = Last("none", TRUE, NoResult)
    /\ first_rows = <<>>
    /\ far = 0
    /\ keyboard = NavigationKeys

StartNext ==
    \/ Edit
    \/ ToggleFocus
    \/ Quit

SpecStart == StartInit /\ [][StartNext]_vars


\* ------------------------------------------------------------------ claims
\* The displayed view of the editor.
View(a) == <<a.current_rows, a.header, a.current_batch_idx, a.total_batches,
             a.total_rows, a.is_filtered>>

Editor == session = "sql_editor"
RawView == session = "table" \/ ~app.is_filtered

\* The step in which execute_sql() returns, and the engine's answer in it.
EngineStep == Editor /\ pc = "executing" /\ last'.key = "engine"
AnsweredBatches == last'.result.kind = "batches"

RECURSIVE CountRows(_)
CountRows(batches) ==
    IF batches = <<>> THEN 0
    ELSE batches[Len(batches)].num_rows
           + CountRows(SubSeq(batches, 1, Len(batches) - 1))

\* The r-th row of a list of batches.
RECURSIVE RowAt(_, _)
RowAt(batches, r) ==
    IF r <= batches[1].num_rows
    THEN [c \in 1..Len(batches[1].schema) |-> batches[1].columns[c][r]]
    ELSE RowAt(SubSeq(batches, 2, Len(batches)), r - batches[1].num_rows)

ResultRows(batches) == [r \in 1..CountRows(batches) |-> RowAt(batches, r)]

\* C1 (as claimed): a query that the engine completes with 0 rows leaves the
\* displayed view exactly as it was.
C1_ZeroRowsKeepView ==
    [][(EngineStep /\ AnsweredBatches /\ CountRows(last'.result.batches) = 0)
          => View(app') = View(app)]_vars

\* C1 (amended): when the engine answers with no batches and the source can be
\* reopened, the view is reset to the original data at batch 0; when the
\* source cannot be reopened the view is left as it was.
C1_NoBatchesReloadOriginal ==
    [][(EngineStep /\ AnsweredBatches /\ last'.result.batches = <<>>)
          => IF last'.io
             THEN /\ app'.current_rows = first_rows
                  /\ app'.header = SourceHeader(file.cols)
                  /\ app'.current_batch_idx = 0
                  /\ app'.total_rows = file.rows
                  /\ app'.total_batches = total_batches_of(file.rows, app.batch_size)
                  /\ ~app'.is_filtered
             ELSE View(app') = View(app)]_vars

\* C1 witness: the engine answered with no batches after the user had paged
\* away from batch 0, and the view is the original one again.
C1_Witness ==
    /\ Editor /\ last.key = "engine" /\ last.io
    /\ last.result.kind = "batches" /\ last.result.batches = <<>>
    /\ far > 0 /\ app.current_batch_idx = 0 /\ ~app.is_filtered

\* C2: a failed execute() (empty text, registration, parse or execution
\* failure) sets an Error status and leaves the view, the column offset and
\* the selected row as they were.
C2_FailureKeepsView ==
    [][(EngineStep /\ (trim(joined(app.sql_textarea)) = <<>>
                        \/ last'.result.kind \in
                              {"register_error", "sql_error", "execution_error"}))
          => /\ app'.execution_state.tag = "Error"
             /\ View(app') = View(app)
             /\ app'.col_offset = app.col_offset
             /\ app'.table_state = app.table_state]_vars

\* C2 witness: a parse failure while an overlay is shown with a row selected
\* below the first.
C2_Witness ==
    /\ Editor /\ last.key = "engine" /\ last.result.kind = "sql_error"
    /\ app.is_filtered /\ app.table_state > 0
    /\ app.execution_state = Error("SQL: <e>")

\* C3: a successful execute() with at least one row replaces the overlay
\* wholesale and sets Success.
C3_OverlayReplaced ==
    (/\ Editor /\ last.key = "engine" /\ last.result.kind = "batches"
     /\ CountRows(last.result.batches) >= 1)
       => /\ app.is_filtered
          /\ app.header = last.result.batches[1].schema
          /\ app.current_rows = ResultRows(last.result.batches)
          /\ app.total_rows = CountRows(last.result.batches)
          /\ app.execution_state = Success

\* C3 witness: a result of two batches was installed.
C3_Witness ==
    /\ Editor /\ last.key = "engine" /\ last.result.kind = "batches"
    /\ Len(last.result.batches) = 2 /\ CountRows(last.result.batches) = 2
    /\ app.is_filtered /\ app.execution_state = Success

\* C4: reset() on a readable source gives batch 0 of the original data,
\* no overlay and the status Idle.
C4_ResetRestores ==
    (Editor /\ last.key = "Ctrl+R" /\ last.io)
       => /\ app.current_batch_idx = 0
          /\ ~app.is_filtered
          /\ app.execution_state = Idle
          /\ app.current_rows = first_rows

\* C4 witness: a reset after the user had paged to the last of several batches.
C4_Witness ==
    /\ Editor /\ last.key = "Ctrl+R" /\ last.io
    /\ far >= 2 /\ app.current_batch_idx = 0


\* The steps that change the active row set.
BatchSwitch ==
    /\ last'.key \in {"PageDown", "PageUp"}
    /\ app'.current_batch_idx # app.current_batch_idx
OverlayInstall == EngineStep /\ AnsweredBatches /\ last'.result.batches # <<>>
OverlayClear == Editor /\ pc = "read" /\ last'.key = "Ctrl+R" /\ last'.io

\* C5 (as claimed): every change of the active row set puts column_offset
\* and selected_row back to their initial values.
C5_EveryChangeResetsViewport ==
    [][(BatchSwitch \/ OverlayInstall \/ OverlayClear)
          => (app'.col_offset = 0 /\ app'.table_state = 0)]_vars

\* C5 (amended): a batch switch puts selected_row back to the first row and
\* keeps column_offset; an overlay install and an overlay clear put both back.
C5_ViewportAfterChange ==
    [][/\ BatchSwitch => (app'.table_state = 0 /\ app'.col_offset = app.col_offset)
       /\ (OverlayInstall \/ OverlayClear)
             => (app'.col_offset = 0 /\ app'.table_state = 0)]_vars

\* C5 witness: the editor has just moved from batch 0 to batch 1 of three
\* with the columns scrolled.
C5_Witness ==
    /\ Editor /\ last.key = "PageDown" /\ last.io
    /\ app.total_batches = 3 /\ app.current_batch_idx = 1
    /\ app.col_offset = 1 /\ app.table_state = 0

\* C6: while an overlay is shown there is one batch, at index 0, and the
\* next and previous commands change nothing.
C6_PaginationInert ==
    /\ []((Editor /\ app.is_filtered)
            => (app.total_batches = 1 /\ app.current_batch_idx = 0))
    /\ [][(Editor /\ pc = "read" /\ app.is_filtered
             /\ app.focused_pane = "TablePreview"
             /\ last'.key \in {"PageDown", "PageUp"})
            => /\ app'.current_rows = app.current_rows
               /\ app'.current_batch_idx = app.current_batch_idx
               /\ app'.table_state = app.table_state
               /\ app'.execution_state = app.execution_state]_vars

\* C6 witness: next was issued in the data pane over an overlay of two rows
\* with the second one selected.
C6_Witness ==
    /\ Editor /\ app.is_filtered /\ app.focused_pane = "TablePreview"
    /\ last.key = "PageDown" /\ app.table_state = 1 /\ file.rows > 1

\* C7 (as claimed): 0 <= batch_index < total_batches in every state of both
\* sessions.
C7_BatchIndexInRange ==
    0 <= app.current_batch_idx /\ app.current_batch_idx < app.total_batches

\* C8: next at the last batch and previous at batch 0 change no field and
\* raise no error.
C8_EdgeIsNoOp ==
    [][(/\ pc = "read"
        /\ session = "table" \/ app.focused_pane = "TablePreview"
        /\ \/ (last'.key = "PageDown"
                 /\ app.current_batch_idx = app.total_batches - 1)
           \/ (last'.key = "PageUp" /\ app.current_batch_idx = 0))
          => app' = app]_vars

\* C8 witness: next was issued at the last of two batches of the raw view; a
\* row below the first is still selected, so the key did not move the view.
C8_Witness ==
    /\ Editor /\ ~app.is_filtered /\ app.focused_pane = "TablePreview"
    /\ last.key = "PageDown"
    /\ app.total_batches = 2 /\ app.current_batch_idx = 1
    /\ app.table_state = 1

\* C9: whenever batch 0 of the raw view is displayed, its rows are those of
\* the initial load, however far the user had paged before.
C9_RoundTrip ==
    (RawView /\ app.current_batch_idx = 0) => app.current_rows = first_rows

\* C9 witness: back at batch 0 through previous, after the last of three
\* batches had been displayed.
C9_Witness ==
    /\ RawView /\ last.key = "PageUp" /\ last.io
    /\ app.current_batch_idx = 0 /\ far = 2 /\ app.total_batches = 3

\* The source rows from..to - 1 (numbered from 0).
SourceSlice(from, to) == [j \in 1..(to - from) |-> SourceRow(from + j - 1, file.cols)]

\* C10: batch n of the raw view shows the source rows n*batch_size up to
\* min((n+1)*batch_size, total_rows) - 1; 5 rows in batches of 2 are 3
\* batches, the last of one row.
C10_BatchRows ==
    RawView =>
       /\ app.current_rows =
             SourceSlice(app.current_batch_idx * app.batch_size,
                         Min((app.current_batch_idx + 1) * app.batch_size, file.rows))
       /\ (file.rows = 5 /\ app.batch_size = 2)
             => /\ app.total_batches = 3
                /\ app.current_batch_idx = 2 => Len(app.current_rows) = 1

\* C10 witness: batch 2 of a file of 5 rows read in batches of 2.
C10_Witness ==
    /\ RawView /\ file.rows = 5 /\ app.batch_size = 2
    /\ app.current_batch_idx = 2
    /\ app.current_rows = <<SourceRow(4, file.cols)>>

\* ceil(n / d) in unbounded integers.
Ceil(n, d) == (n + d - 1) \div d

\* C11 (as claimed): for every batch_size >= 1 and every total_rows, the
\* total_batches computed at source open and at reset is
\* ceil(total_rows / batch_size).
C11_CeilingDivision ==
    RawView => app.total_batches = Ceil(file.rows, app.batch_size)

\* The largest column offset of a view.
MaxOffset(a) ==
    IF Len(a.header) > VISIBLE_COLS THEN Len(a.header) - VISIBLE_COLS ELSE 0

InDataPane == session = "table" \/ app.focused_pane = "TablePreview"

\* C12: 0 <= column_offset <= max(0, total_columns - visible_window) in every
\* state, and scroll_right at the upper bound and scroll_left at 0 change
\* nothing and raise no error.
C12_ColumnOffsetInRange ==
    /\ [](0 <= app.col_offset /\ app.col_offset <= MaxOffset(app))
    /\ [][(/\ pc = "read" /\ InDataPane
           /\ \/ (last'.key = "Right" /\ app.col_offset = MaxOffset(app))
              \/ (last'.key = "Left" /\ app.col_offset = 0))
            => app' = app]_vars

\* C12 witness: scroll_right was issued in the data pane over an overlay of
\* one column, narrower than the window, and the offset is still 0.
C12_Witness ==
    /\ Editor /\ app.is_filtered /\ app.focused_pane = "TablePreview"
    /\ Len(app.header) = 1 /\ app.current_rows # <<>>
    /\ last.key = "Right" /\ app.col_offset = 0

\* C13 (as claimed): selected_row always indexes a row of the currently
\* displayed row set.
C13_SelectionIndexesRow ==
    0 <= app.table_state /\ app.table_state < Len(app.current_rows)

\* A key is about to be handled by the editor.
KeyRead == Editor /\ pc = "read"

\* C14: the status is Executing exactly while run() waits for the engine, and
\* the only step taken from such a state is the return of execute_sql(): no
\* key is handled and no second execution starts.
C14_SingleFlight ==
    /\ [](Editor => ((app.execution_state = Executing) <=> (pc = "executing")))
    /\ [][(Editor /\ app.execution_state = Executing)
            => /\ last'.key = "engine"
               /\ pc' = "read"
               /\ app'.execution_state # Executing]_vars

\* C14 witness: an execution is in progress that was started while the save
\* dialog of an earlier result was open.
C14_Witness ==
    /\ Editor /\ pc = "executing" /\ app.execution_state = Executing
    /\ last.key = "Ctrl+E" /\ app.is_filtered /\ app.show_save_dialog

\* C15 (as claimed): the execute command moves the status to Executing, and
\* the engine result moves it to Success or Error(msg) and to no other value.
C15_ExecutingToSuccessOrError ==
    [][/\ (KeyRead /\ last'.key = "Ctrl+E") => app'.execution_state = Executing
       /\ EngineStep => app'.execution_state.tag \in {"Success", "Error"}]_vars

\* C16: the toggle key swaps the focus between the query input and the data
\* pane and changes nothing else; while the save dialog is focused it changes
\* nothing at all.
C16_ToggleFocus ==
    [][(KeyRead /\ last'.key = "F2")
         => app' = CASE app.focused_pane = "SqlEditor" ->
                          [app EXCEPT !.focused_pane = "TablePreview"]
                     [] app.focused_pane = "TablePreview" ->
                          [app EXCEPT !.focused_pane = "SqlEditor"]
                     [] app.focused_pane = "SaveDialog" -> app]_vars

\* C16 witness: the toggle key was pressed while the save dialog was focused,
\* and the dialog is still focused and shown.
C16_Witness ==
    /\ Editor /\ last.key = "F2"
    /\ app.focused_pane = "SaveDialog" /\ app.show_save_dialog

\* C17: the focus enters the save dialog only through the save command issued
\* over an overlay; the save command without an overlay sets an Error status
\* and leaves the focus and the visibility of the dialog as they were.
C17_SaveDialogEntry ==
    [][/\ (Editor /\ app'.focused_pane = "SaveDialog" /\ app.focused_pane # "SaveDialog")
            => (last'.key = "Ctrl+S" /\ app.is_filtered)
       /\ (KeyRead /\ last'.key = "Ctrl+S" /\ ~app.is_filtered)
            => /\ app'.execution_state.tag = "Error"
               /\ app'.focused_pane = app.focused_pane
               /\ app'.show_save_dialog = app.show_save_dialog]_vars

\* C17 witness: the save command was issued in the data pane without an
\* overlay; the status is the error and the focus is still on the data pane.
C17_Witness ==
    /\ Editor /\ last.key = "Ctrl+S" /\ ~app.is_filtered
    /\ app.focused_pane = "TablePreview" /\ ~app.show_save_dialog
    /\ app.execution_state = Error("Execute a query first before saving")

\* C18 (as claimed): while the save dialog is focused the cancel key closes
\* the dialog: the session continues, the focus returns to the query input
\* and the dialog is hidden.
C18_CancelClosesDialog ==
    [][(KeyRead /\ app.focused_pane = "SaveDialog" /\ last'.key = "Esc")
         => /\ pc' = "read"
            /\ app'.focused_pane = "SqlEditor"
            /\ ~app'.show_save_dialog]_vars

\* C19: while the save dialog is focused the confirm key calls the exporter
\* with the text of the dialog as destination; then the dialog is hidden and
\* the focus is on the query input, with the status Success when the export
\* succeeded and an Error when it failed.
C19_ConfirmExports ==
    [][(KeyRead /\ app.focused_pane = "SaveDialog" /\ last'.key = "Enter")
         => /\ last'.result.kind = "export"
            /\ last'.result.path = app.save_dialog
            /\ pc' = "read"
            /\ ~app'.show_save_dialog
            /\ app'.focused_pane = "SqlEditor"
            /\ app'.execution_state =
                  IF last'.result.ok THEN Success ELSE Error("Save error: <e>")]_vars

\* C19 witness: an export to a writable destination failed, the dialog is
\* closed and the focus is on the query input.
C19_Witness ==
    /\ Editor /\ last.key = "Enter" /\ last.result.kind = "export"
    /\ ~last.result.ok /\ last.io
    /\ ~app.show_save_dialog /\ app.focused_pane = "SqlEditor"
    /\ app.execution_state = Error("Save error: <e>")

\* The data pane and the two text buffers of the editor.
PaneState(a) == <<a.current_rows, a.header, a.current_batch_idx, a.total_batches,
                  a.total_rows, a.is_filtered, a.table_state, a.col_offset>>
Texts(a) == <<a.sql_textarea, a.save_dialog>>
EditorGlobalKeys == {"Esc", "Ctrl+Q", "Ctrl+E", "Ctrl+R", "Ctrl+S", "F2"}

Exported == Editor /\ last.key = "Enter" /\ last.result.kind = "export"

\* C21: the exporter called without an overlay fails and leaves no file; a
\* call that succeeds was made over an overlay and leaves a file with the
\* overlay's header as columns and as many rows as the overlay.
C21_ExportOnlyOverlay ==
    Exported =>
       /\ ~app.is_filtered
            => /\ ~last.result.ok /\ last.result.file = <<>>
               /\ last.result.error = "No SQL results to save. Execute a query first."
               /\ app.execution_state = Error("Save error: <e>")
       /\ last.result.ok
            => /\ app.is_filtered
               /\ Len(last.result.file) = 1
               /\ last.result.file[1].schema = app.header
               /\ last.result.file[1].num_rows = Len(app.current_rows)
               /\ batch_to_rows(last.result.file[1]) = app.current_rows
       /\ ~last.result.ok => last.result.file = <<>>

\* C21 witness: the exporter was called on a writable destination after a
\* reset had cleared the overlay under the open dialog; it wrote nothing.
C21_Witness ==
    /\ Exported /\ ~app.is_filtered /\ last.io /\ last.result.path # <<>>
    /\ ~last.result.ok /\ last.result.file = <<>>

\* What the claim calls a text that begins with a plain selection, and a text
\* that carries an explicit row-limit clause.
PlainSelection(sql) ==
    sql # <<>> /\ sql[1] \in {"SELECT * FROM data", "select * from data"}
RowLimitClause(sql) == \E i \in 1..Len(sql) : sql[i] = "LIMIT 100"

\* C22 (as claimed): a query text that begins with a plain selection and
\* carries no row-limit clause reaches the engine with the preview cap
\* appended, and the overlay holds at most the cap; a text with its own
\* row-limit clause reaches the engine unchanged.
C22_CapUnlessLimitClause ==
    [][(EngineStep /\ last'.result.kind # "none")
         => LET sql == trim(joined(app.sql_textarea)) IN
            /\ (PlainSelection(sql) /\ ~RowLimitClause(sql))
                 => /\ last'.result.query = Append(sql, " LIMIT 1000")
                    /\ app'.is_filtered => Len(app'.current_rows) <= MAX_PREVIEW_ROWS
            /\ RowLimitClause(sql) => last'.result.query = sql]_vars

\* C23 (as claimed): at startup the file is accepted exactly when its
\* extension is parquet or pqt; any other file is rejected with the fixed
\* message and exit code 0 before an App is constructed.
C23_AcceptedExtensions ==
    pc # "start" =>
       IF extension(path) \in {<<"parquet">>, <<"pqt">>}
       THEN pc # "exit"
       ELSE /\ pc = "exit"
            /\ last.result.kind = "exit"
            /\ last.result.stderr = "ERROR: UNSUPPORTED_FILE_TYPE (.parquet or .pqt only)"
            /\ last.result.code = 0
            /\ app = NoApp

\* The steps of the editor in which a data or query error occurs: the engine
\* fails or the reload after an empty answer fails, the source cannot be read
\* on a batch switch or on reset, or the export fails.
QueryFailure ==
    /\ EngineStep
    /\ \/ last'.result.kind \in {"register_error", "sql_error", "execution_error"}
       \/ (AnsweredBatches /\ last'.result.batches = <<>> /\ ~last'.io)
SourceFailure ==
    /\ KeyRead /\ ~last'.io
    /\ \/ last'.key = "Ctrl+R"
       \/ /\ app.focused_pane = "TablePreview" /\ ~app.is_filtered
          /\ \/ (last'.key = "PageDown" /\ app.current_batch_idx + 1 < app.total_batches)
             \/ (last'.key = "PageUp" /\ app.current_batch_idx > 0)
ExportFailure ==
    KeyRead /\ last'.result.kind = "export" /\ ~last'.result.ok

\* C24 (as claimed): every data or query error of the session becomes an
\* Error status and the loop keeps running; the loop ends only on the quit
\* command or on a failure to draw to the terminal or to read the input.
C24_ErrorsBecomeStatus ==
    [][Editor =>
        /\ (QueryFailure \/ SourceFailure \/ ExportFailure)
             => (app'.execution_state.tag = "Error" /\ pc' = "read")
        /\ (pc \in {"read", "executing"} /\ pc' \notin {"read", "executing"})
             => last'.key \in {"Esc", "Ctrl+Q", "terminal"}]_vars

\* C25 (as claimed): in every state with is_filtered = true the overlay holds
\* at least one row.
C25_OverlayNonEmpty ==
    (Editor /\ app.is_filtered) => Len(app.current_rows) >= 1

\* C26 (as claimed): the save dialog is focused exactly when it is shown, and
\* then an overlay is active; a confirm never fails with the no-overlay error.
C26_DialogImpliesOverlay ==
    Editor =>
       /\ (app.focused_pane = "SaveDialog") <=> app.show_save_dialog
       /\ app.show_save_dialog => app.is_filtered
       /\ Exported
            => last.result.error # "No SQL results to save. Execute a query first."

\* The step reloaded the original data: a reset, or an execution that the
\* engine answered with no batches, over a readable source.
Reloaded ==
    /\ last'.io
    /\ \/ (KeyRead /\ last'.key = "Ctrl+R")
       \/ (EngineStep /\ AnsweredBatches /\ last'.result.batches = <<>>)

\* C27: the status Idle implies that no overlay is active, and the status
\* becomes Idle only through a successful reload of the original data.
C27_IdleImpliesNoOverlay ==
    /\ []((Editor /\ app.execution_state = Idle) => ~app.is_filtered)
    /\ [][(Editor /\ app'.execution_state = Idle /\ app.execution_state # Idle)
            => Reloaded]_vars

\* C27 witness: the status is Idle after a reload that cleared an overlay
\* whose save dialog was open.
C27_Witness ==
    /\ Editor /\ app.execution_state = Idle /\ ~app.is_filtered
    /\ app.show_save_dialog

====
